---- MODULE Spec2Model ----
(***************************************************************************)
(* Model of the ethereum-exporter monitor (package monitor):               *)
(*   Monitor.start         the polling loop (select on time.After / ctx)   *)
(*   Monitor.gatherMetrics one gathering round                             *)
(*   Monitor.setupApis     the connection attempt                          *)
(*   Monitor.setupConsul   the bounded registration retry loop             *)
(* The collaborators (EthClient, Etherscan, consul agent) are inputs: each *)
(* call returns one of a small set of results chosen with \E.              *)
(***************************************************************************)
EXTENDS Integers, Sequences, FiniteSets, TLC

VARIABLES
    connected,      \* Monitor.connected
    synced,         \* Monitor.synced
    lastBlock,      \* Monitor.lastBlock: <<>> is nil, <<b>> is a block
    chain,          \* Monitor.chain (field)
    etherscan,      \* Monitor.etherscan: "" is nil, else the explorer url
    ethClient,      \* Monitor.ethClient: "" is nil, else "client"
    pc,             \* position of the start goroutine: "select", or the
                    \* call the tick handler waits in or has returned from:
                    \* "peers" | "blockNumber" | "block" | "explorer" |
                    \* "gathered" | "chain" | "setup"
    timer,          \* the time.After channel of the current select
    cancelled,      \* ctx.Done() is closed
    shutdownLogs,   \* times the ctx.Done branch has run
    inflight,       \* tick handlers entered and not yet returned
    prev,           \* MonitorState and the explorer endpoint when the
                    \* current/last tick handler began
    kind,           \* what the last tick handler did: "gather" | "connect";
                    \* "none" before the first and while one is in flight
    lastIn,         \* results the collaborators returned in the current/last
                    \* handler
    calls,          \* collaborator calls of the current/last handler that
                    \* have returned, in order
    gauges,         \* gauges emitted by the current/last handler, in order
    errs,           \* causes aggregated by the last gathering round
    logs,           \* log lines written by the current/last handler
    afterRefused,   \* the last handler was a round with the refused signature
    followsRefused, \* afterRefused as it was when the last handler began
    lagVerdict,     \* the most recent comparison of a lag with SyncThreshold:
                    \* "none" | "within" | "beyond"
    blockNumber,    \* gatherMetrics: the local blockNumber (<<>> is nil)
    setupErr,       \* start: the err setupApis returned (<<>> is nil)
    ci,             \* setupConsul: loop variable i
    cpc,            \* setupConsul: "loop" | "sleep" | "done"
    attempts,       \* setupConsul: calls of setupConsulImpl so far
    sleeps,         \* setupConsul: completed time.Sleep calls
    registered,     \* setupConsul: a registration succeeded
    epc,            \* Exporter.startRPC: "select" | "rpc" | "returned"
    etimer,         \* the time.After channel of startRPC's current select:
                    \* "armed" | "fired" | "none"
    rcpStop,        \* Exporter.rcpStop: number of buffered stop signals
    spc,            \* Exporter.Shutdown: "none" | "send" | "done"
    listener,       \* Exporter.listener: "open" | "closed"
    peersGauge,     \* the peers gauge of the exporter: <<>> is never set
    rpcErrLogged,   \* the last rpcCalls round logged an error
    rpcRounds,      \* rpcCalls rounds completed, counted up to MaxRpcRounds
    sentInFlight    \* the stop signal was sent while a round was in flight

monitorState == <<connected, synced, lastBlock>>
apiVars      == <<chain, etherscan, ethClient>>
loopVars     == <<pc, timer, shutdownLogs, inflight>>
tickVars     == <<prev, kind, lastIn, calls, gauges, errs, logs,
                  afterRefused, followsRefused, lagVerdict, blockNumber,
                  setupErr>>
consulVars   == <<ci, cpc, attempts, sleeps, registered>>
expVars      == <<epc, etimer, rcpStop, spc, listener, peersGauge,
                  rpcErrLogged, rpcRounds, sentInFlight>>
vars == <<monitorState, apiVars, loopVars, cancelled, tickVars, consulVars,
          expVars>>

----------------------------------------------------------------------------
(* Bounds and configuration *)

MaxShutdownLogs == 2

SyncThreshold == 5

retries == 5

MaxRpcRounds == 3

RcpStopCap == 1

----------------------------------------------------------------------------
(* Collaborator results *)

ErrRefused == <<"dial", "tcp", "connection", "refused">>
ErrTimeout == <<"connection", "timed", "out">>
ErrMsgs    == {ErrRefused, ErrTimeout}

LocalNumbers  == {80, 115, 120}
RemoteNumbers == {114, 120, 16777297}
Timestamps    == {1000, 1015, 16778217}
ChainNames    == {"kovan", "foundation", "ropsten"}

Ok(v)   == [ok |-> TRUE, val |-> v, ts |-> 0, err |-> <<>>]
Fail(e) == [ok |-> FALSE, val |-> 0, ts |-> 0, err |-> e]
NotCalled == [ok |-> FALSE, val |-> 0, ts |-> 0, err |-> <<>>]

PeerResults == {Ok(3)} \cup {Fail(e) : e \in ErrMsgs}

BlockNumberResults == {Ok(n) : n \in LocalNumbers} \cup {Fail(e) : e \in ErrMsgs}

\* BlockByNumber(n): the block numbered n; BlockByNumber(nil) (the number
\* query failed) is answered by the node with some block or with an error.
BlockResults(bn) ==
    {[ok |-> TRUE, val |-> n, ts |-> t, err |-> <<>>] :
        n \in (IF bn.ok THEN {bn.val} ELSE {120}), t \in Timestamps}
    \cup {Fail(e) : e \in ErrMsgs}

ExplorerResults(bn) ==
    IF bn.ok THEN {Ok(n) : n \in RemoteNumbers} \cup {Fail(e) : e \in ErrMsgs}
             ELSE {NotCalled}

ChainResults ==
    {[ok |-> TRUE, name |-> c, err |-> <<>>] : c \in ChainNames}
    \cup {[ok |-> FALSE, name |-> "", err |-> e] : e \in ErrMsgs}

NoInput == [peers |-> NotCalled, bn |-> NotCalled, blk |-> NotCalled,
            exp |-> NotCalled, chain |-> [ok |-> FALSE, name |-> "", err |-> <<>>]]

----------------------------------------------------------------------------
(* Pure helpers *)

Abs(x) == IF x < 0 THEN -x ELSE x

Sub(x, y) == x - y

\* float32(int64): 24 bits of mantissa, round to nearest, ties to even.
RECURSIVE F32Step(_)
F32Step(a) == IF a < 2^24 THEN 1 ELSE 2 * F32Step(a \div 2)

F32Mag(a) ==
    LET s == F32Step(a)
        q == a \div s
        r == a % s
    IN  IF 2 * r < s THEN q * s
        ELSE IF 2 * r > s THEN (q + 1) * s
        ELSE IF q % 2 = 0 THEN q * s ELSE (q + 1) * s

F32(n) == IF n < 0 THEN -F32Mag(-n) ELSE F32Mag(n)

\* strings.Contains on word sequences: sub occurs contiguously in s.
Contains(s, sub) ==
    \E k \in 0..(Len(s) - Len(sub)) :
        \A j \in 1..Len(sub) : s[k + j] = sub[j]

RECURSIVE Bullets(_)
Bullets(es) ==
    IF es = <<>> THEN <<>> ELSE <<"*">> \o Head(es) \o Bullets(Tail(es))

\* (*multierror.Error).Error(): a header line, then one bullet per cause.
ErrorText(es) ==
    (IF Len(es) = 1 THEN <<"1", "error", "occurred:">>
                    ELSE <<"n", "errors", "occurred:">>) \o Bullets(es)

Signature == <<"connection", "refused">>

ConnectionRefusedFirstOnly(es) == Contains(Head(es), Signature)

ConnectionRefusedAnyError(es) == es # <<>>

ConnectionRefused(es) == Contains(ErrorText(es), Signature)

Gauge(n, v) == [name |-> n, value |-> v]

----------------------------------------------------------------------------
(* Monitor.gatherMetrics: what the code does after each of its four        *)
(* collaborator calls returns r, over the record acc of what the round      *)
(* reads and writes (acc.blockNumber is the local blockNumber, <<>> is nil) *)

stepPeers(acc, r) ==
    LET a == [acc EXCEPT !.calls = Append(@, "peers")]
    IN  IF ~r.ok
        THEN [a EXCEPT !.errs = Append(@, r.err)]
        ELSE [a EXCEPT !.gauges = Append(@, Gauge("peers", F32(r.val)))]

stepBlockNumberAbortOnError(acc, r) ==
    IF acc.errs # <<>> THEN acc
    ELSE LET a == [acc EXCEPT !.calls = Append(@, "blockNumber")]
         IN  IF ~r.ok
             THEN [a EXCEPT !.errs = Append(@, r.err)]
             ELSE [a EXCEPT !.blockNumber = <<r.val>>,
                            !.gauges = Append(@, Gauge("blockNumber", F32(r.val)))]

stepBlockNumber(acc, r) ==
    LET a == [acc EXCEPT !.calls = Append(@, "blockNumber")]
    IN  IF ~r.ok
        THEN [a EXCEPT !.errs = Append(@, r.err)]
        ELSE [a EXCEPT !.blockNumber = <<r.val>>,
                       !.gauges = Append(@, Gauge("blockNumber", F32(r.val)))]

stepBlockKeepsHigherBlock(acc, r) ==
    LET a == [acc EXCEPT !.calls = Append(@, "block")]
    IN  IF ~r.ok
        THEN [a EXCEPT !.errs = Append(@, r.err)]
        ELSE LET block == [number |-> r.val, timestamp |-> r.ts]
                 b == IF acc.lastBlock # <<>>
                      THEN [a EXCEPT !.gauges = Append(@,
                              Gauge("blocktime",
                                    F32(block.timestamp - acc.lastBlock[1].timestamp)))]
                      ELSE a
             IN  IF acc.lastBlock # <<>> /\ acc.lastBlock[1].number > block.number
                 THEN b
                 ELSE [b EXCEPT !.lastBlock = <<block>>]

\* BlockByNumber(blockNumber) is called whether or not blockNumber is nil.
stepBlock(acc, r) ==
    LET a == [acc EXCEPT !.calls = Append(@, "block")]
    IN  IF ~r.ok
        THEN [a EXCEPT !.errs = Append(@, r.err)]
        ELSE LET block == [number |-> r.val, timestamp |-> r.ts]
                 b == IF acc.lastBlock # <<>>
                      THEN [a EXCEPT !.gauges = Append(@,
                              Gauge("blocktime",
                                    F32(block.timestamp - acc.lastBlock[1].timestamp)))]
                      ELSE a
             IN  [b EXCEPT !.lastBlock = <<block>>]

stepEtherscanClearsSyncedOnError(acc, r) ==
    IF acc.blockNumber # <<>>
    THEN LET a == [acc EXCEPT !.calls = Append(@, "explorer")]
         IN  IF ~r.ok
             THEN [a EXCEPT !.errs = Append(@, r.err), !.synced = FALSE]
             ELSE LET blocksbehind == Sub(r.val, acc.blockNumber[1])
                      blocksDiff == Abs(blocksbehind)
                  IN  [a EXCEPT !.gauges = Append(@, Gauge("blocksbehind", F32(blocksbehind))),
                                !.synced = (blocksDiff <= SyncThreshold)]
    ELSE acc

stepEtherscanSignedLag(acc, r) ==
    IF acc.blockNumber # <<>>
    THEN LET a == [acc EXCEPT !.calls = Append(@, "explorer")]
         IN  IF ~r.ok
             THEN [a EXCEPT !.errs = Append(@, r.err)]
             ELSE LET blocksbehind == Sub(r.val, acc.blockNumber[1])
                  IN  [a EXCEPT !.gauges = Append(@, Gauge("blocksbehind", F32(blocksbehind))),
                                !.synced = (blocksbehind <= SyncThreshold)]
    ELSE acc

stepEtherscan(acc, r) ==
    IF acc.blockNumber # <<>>
    THEN LET a == [acc EXCEPT !.calls = Append(@, "explorer")]
         IN  IF ~r.ok
             THEN [a EXCEPT !.errs = Append(@, r.err)]
             ELSE LET blocksbehind == Sub(r.val, acc.blockNumber[1])
                      blocksDiff == Abs(blocksbehind)
                  IN  [a EXCEPT !.gauges = Append(@, Gauge("blocksbehind", F32(blocksbehind))),
                                !.synced = (blocksDiff <= SyncThreshold)]
    ELSE acc

----------------------------------------------------------------------------
(* Monitor.setupApis *)

ExplorerUrlAcceptsAnyChain(c) ==
    IF c = "kovan" THEN "kovan.etherscan.io" ELSE "api.etherscan.io"

ExplorerUrl(c) ==
    IF c = "kovan" THEN "kovan.etherscan.io"
    ELSE IF c = "foundation" THEN "api.etherscan.io"
    ELSE ""

setupApis(es, r) ==
    IF ~r.ok THEN [err |-> r.err, etherscan |-> es, logs |-> <<>>]
    ELSE IF ExplorerUrl(r.name) = ""
    THEN [err |-> <<"Chain", r.name, "not", "found">>, etherscan |-> es, logs |-> <<>>]
    ELSE [err |-> <<>>, etherscan |-> ExplorerUrl(r.name), logs |-> <<"Using chain">>]

----------------------------------------------------------------------------
(* Monitor.start: what the time.After case does with the error es that     *)
(* gatherMetrics returned, and with the error err that setupApis returned  *)

handleGatherResult(conn, previousState, sy, es) ==
    LET failed == es # <<>>
        refused == failed /\ ConnectionRefused(es)
    IN  [connected |-> IF refused THEN FALSE ELSE conn,
         logs |-> (IF failed THEN <<"Export errors">> ELSE <<>>)
                  \o (IF refused THEN <<"Node may be down">> ELSE <<>>)
                  \o (IF failed /\ previousState # sy
                      THEN <<"State changed">> ELSE <<>>)]

handleSetupResultResetsOnFailure(s, err) ==
    [connected |-> (err = <<>>),
     synced |-> IF err # <<>> THEN FALSE ELSE s.synced,
     lastBlock |-> IF err # <<>> THEN <<>> ELSE s.lastBlock,
     logs |-> IF err # <<>> THEN <<"Failed to connect to node">>
                            ELSE <<"Chain connected">>]

handleSetupResultResetsOnSuccess(s, err) ==
    [connected |-> (err = <<>>),
     synced |-> IF err = <<>> THEN FALSE ELSE s.synced,
     lastBlock |-> IF err = <<>> THEN <<>> ELSE s.lastBlock,
     logs |-> IF err # <<>> THEN <<"Failed to connect to node">>
                            ELSE <<"Chain connected">>]

\* connected is TRUE after a nil err and is left alone otherwise; synced and
\* lastBlock are not written.
handleSetupResult(s, err) ==
    [connected |-> IF err = <<>> THEN TRUE ELSE s.connected,
     synced |-> s.synced,
     lastBlock |-> s.lastBlock,
     logs |-> IF err # <<>> THEN <<"Failed to connect to node">>
                            ELSE <<"Chain connected">>]

----------------------------------------------------------------------------
(* The start goroutine *)

Snapshot == [connected |-> connected, synced |-> synced, lastBlock |-> lastBlock,
             etherscan |-> etherscan]

\* time.After(RPCInterval) of the pending select delivers its tick.
TimerFire ==
    /\ pc = "select"
    /\ timer = "armed"
    /\ timer' = "fired"
    /\ UNCHANGED <<monitorState, apiVars, pc, shutdownLogs, inflight,
                   cancelled, tickVars, consulVars>>
    /\ UNCHANGED expVars

TickAsTicker ==
    /\ pc = "select"
    /\ timer = "fired"
    /\ pc' = IF connected THEN "peers" ELSE "chain"
    /\ ethClient' = IF connected THEN ethClient ELSE "client"
    /\ timer' = "fired"
    /\ inflight' = inflight + 1
    /\ prev' = Snapshot
    /\ kind' = "none"
    /\ lastIn' = NoInput
    /\ calls' = <<>>
    /\ gauges' = <<>>
    /\ errs' = <<>>
    /\ logs' = <<>>
    /\ followsRefused' = FALSE
    /\ blockNumber' = <<>>
    /\ setupErr' = <<>>
    /\ UNCHANGED <<monitorState, chain, etherscan, shutdownLogs, cancelled,
                   afterRefused, lagVerdict, consulVars>>
    /\ UNCHANGED expVars

TickIgnoresConnected ==
    /\ pc = "select"
    /\ timer = "fired"
    /\ pc' = "peers"
    /\ ethClient' = ethClient
    /\ timer' = "none"
    /\ inflight' = inflight + 1
    /\ prev' = Snapshot
    /\ kind' = "none"
    /\ lastIn' = NoInput
    /\ calls' = <<>>
    /\ gauges' = <<>>
    /\ errs' = <<>>
    /\ logs' = <<>>
    /\ followsRefused' = FALSE
    /\ blockNumber' = <<>>
    /\ setupErr' = <<>>
    /\ UNCHANGED <<monitorState, chain, etherscan, shutdownLogs, cancelled,
                   afterRefused, lagVerdict, consulVars>>
    /\ UNCHANGED expVars

\* select takes the time.After case and the tick handler runs up to its
\* first wait: connected, it reads previousState and calls PeerCount;
\* disconnected, setupApis replaces m.ethClient and calls Chain.
Tick ==
    /\ pc = "select"
    /\ timer = "fired"
    /\ pc' = IF connected THEN "peers" ELSE "chain"
    /\ ethClient' = IF connected THEN ethClient ELSE "client"
    /\ timer' = "none"
    /\ inflight' = inflight + 1
    /\ prev' = Snapshot
    /\ kind' = "none"
    /\ lastIn' = NoInput
    /\ calls' = <<>>
    /\ gauges' = <<>>
    /\ errs' = <<>>
    /\ logs' = <<>>
    /\ followsRefused' = FALSE
    /\ blockNumber' = <<>>
    /\ setupErr' = <<>>
    /\ UNCHANGED <<monitorState, chain, etherscan, shutdownLogs, cancelled,
                   afterRefused, lagVerdict, consulVars>>
    /\ UNCHANGED expVars

\* What the round in flight has read and written so far.
Acc ==
    [lastBlock |-> lastBlock, synced |-> synced, blockNumber |-> blockNumber,
     calls |-> calls, gauges |-> gauges, errs |-> errs]

\* The writes of a gatherMetrics step.
AccApply(a) ==
    /\ lastBlock' = a.lastBlock
    /\ synced' = a.synced
    /\ blockNumber' = a.blockNumber
    /\ calls' = a.calls
    /\ gauges' = a.gauges
    /\ errs' = a.errs

\* PeerCount returns; the round handles the result and calls BlockNumber.
PeerCountReturn ==
    /\ pc = "peers"
    /\ \E r \in PeerResults :
        /\ AccApply(stepPeers(Acc, r))
        /\ lastIn' = [lastIn EXCEPT !.peers = r]
    /\ pc' = "blockNumber"
    /\ UNCHANGED <<connected, apiVars, timer, shutdownLogs, inflight, cancelled,
                   prev, kind, logs, afterRefused, followsRefused, lagVerdict,
                   setupErr, consulVars>>
    /\ UNCHANGED expVars

\* BlockNumber returns; the round handles the result and calls
\* BlockByNumber(blockNumber), whether or not blockNumber is nil.
BlockNumberReturn ==
    /\ pc = "blockNumber"
    /\ \E r \in BlockNumberResults :
        /\ AccApply(stepBlockNumber(Acc, r))
        /\ lastIn' = [lastIn EXCEPT !.bn = r]
    /\ pc' = "block"
    /\ UNCHANGED <<connected, apiVars, timer, shutdownLogs, inflight, cancelled,
                   prev, kind, logs, afterRefused, followsRefused, lagVerdict,
                   setupErr, consulVars>>
    /\ UNCHANGED expVars

\* BlockByNumber returns; the round handles the result (m.lastBlock is
\* written here) and, when blockNumber is not nil, calls the explorer;
\* otherwise gatherMetrics returns.
BlockByNumberReturn ==
    /\ pc = "block"
    /\ \E r \in BlockResults(lastIn.bn) :
        /\ AccApply(stepBlock(Acc, r))
        /\ lastIn' = [lastIn EXCEPT !.blk = r]
    /\ pc' = IF blockNumber # <<>> THEN "explorer" ELSE "gathered"
    /\ UNCHANGED <<connected, apiVars, timer, shutdownLogs, inflight, cancelled,
                   prev, kind, logs, afterRefused, followsRefused, lagVerdict,
                   setupErr, consulVars>>
    /\ UNCHANGED expVars

\* etherscan.BlockNumber returns; the round handles the result (m.synced is
\* written here) and gatherMetrics returns.
EtherscanReturn ==
    /\ pc = "explorer"
    /\ \E r \in ExplorerResults(lastIn.bn) :
        LET lag == r.val - blockNumber[1]
        IN  /\ AccApply(stepEtherscan(Acc, r))
            /\ lastIn' = [lastIn EXCEPT !.exp = r]
            /\ lagVerdict' = IF r.ok
                             THEN (IF lag <= SyncThreshold /\ -lag <= SyncThreshold
                                   THEN "within" ELSE "beyond")
                             ELSE lagVerdict
    /\ pc' = "gathered"
    /\ UNCHANGED <<connected, apiVars, timer, shutdownLogs, inflight, cancelled,
                   prev, kind, logs, afterRefused, followsRefused,
                   setupErr, consulVars>>
    /\ UNCHANGED expVars

\* The handler deals with the error gatherMetrics returned (logs, and
\* m.connected = false on the refused signature); the loop re-enters the
\* select with a new time.After timer.
GatherReturn ==
    /\ pc = "gathered"
    /\ LET h == handleGatherResult(connected, prev.synced, synced, errs)
       IN  /\ connected' = h.connected
           /\ logs' = logs \o h.logs
    /\ kind' = "gather"
    /\ followsRefused' = afterRefused
    /\ afterRefused' = (errs # <<>> /\ ConnectionRefused(errs))
    /\ pc' = "select"
    /\ timer' = "armed"
    /\ inflight' = inflight - 1
    /\ UNCHANGED <<synced, lastBlock, apiVars, shutdownLogs, cancelled, prev,
                   lastIn, calls, gauges, errs, lagVerdict, blockNumber,
                   setupErr, consulVars>>
    /\ UNCHANGED expVars

\* Chain returns; setupApis handles the result (m.etherscan is written here
\* for an allowed chain) and returns its error.
ChainReturn ==
    /\ pc = "chain"
    /\ \E c \in ChainResults :
        LET a == setupApis(etherscan, c)
        IN  /\ etherscan' = a.etherscan
            /\ setupErr' = a.err
            /\ logs' = logs \o a.logs
            /\ lastIn' = [lastIn EXCEPT !.chain = c]
    /\ calls' = Append(calls, "chain")
    /\ pc' = "setup"
    /\ UNCHANGED <<monitorState, chain, ethClient, timer, shutdownLogs, inflight,
                   cancelled, prev, kind, gauges, errs, afterRefused,
                   followsRefused, lagVerdict, blockNumber, consulVars>>
    /\ UNCHANGED expVars

\* The handler deals with the error setupApis returned (m.connected = true
\* after nil); the loop re-enters the select with a new time.After timer.
SetupReturn ==
    /\ pc = "setup"
    /\ LET h == handleSetupResult([connected |-> connected, synced |-> synced,
                                   lastBlock |-> lastBlock], setupErr)
       IN  /\ connected' = h.connected
           /\ synced' = h.synced
           /\ lastBlock' = h.lastBlock
           /\ logs' = logs \o h.logs
    /\ kind' = "connect"
    /\ followsRefused' = afterRefused
    /\ afterRefused' = FALSE
    /\ pc' = "select"
    /\ timer' = "armed"
    /\ inflight' = inflight - 1
    /\ UNCHANGED <<apiVars, shutdownLogs, cancelled, prev, lastIn, calls,
                   gauges, errs, lagVerdict, blockNumber, setupErr, consulVars>>
    /\ UNCHANGED expVars

\* select takes the ctx.Done() case: one log line, then the for loop goes
\* round again (the case has no return) and arms a new timer.
Done ==
    /\ pc = "select"
    /\ cancelled
    /\ shutdownLogs < MaxShutdownLogs
    /\ shutdownLogs' = shutdownLogs + 1
    /\ timer' = "armed"
    /\ UNCHANGED <<monitorState, apiVars, pc, inflight, cancelled,
                   tickVars, consulVars>>
    /\ UNCHANGED expVars

\* The owner of ctx cancels it.
Cancel ==
    /\ ~cancelled
    /\ cancelled' = TRUE
    /\ UNCHANGED <<monitorState, apiVars, loopVars, tickVars, consulVars>>
    /\ UNCHANGED expVars

----------------------------------------------------------------------------
(* The setupConsul goroutine *)

consulLoopCondOffByOne(i) == i <= retries

consulLoopCond(i) == i < retries

\* setupConsulImpl returns nil: log and return.
ConsulRegistered ==
    /\ cpc = "loop"
    /\ consulLoopCond(ci)
    /\ attempts' = attempts + 1
    /\ registered' = TRUE
    /\ cpc' = "done"
    /\ UNCHANGED <<monitorState, apiVars, loopVars, cancelled, tickVars,
                   ci, sleeps>>
    /\ UNCHANGED expVars

ConsulFailedClearsConnected ==
    /\ cpc = "loop"
    /\ consulLoopCond(ci)
    /\ attempts' = attempts + 1
    /\ cpc' = "sleep"
    /\ connected' = FALSE
    /\ UNCHANGED <<synced, lastBlock, apiVars, loopVars, cancelled, tickVars,
                   ci, sleeps, registered>>
    /\ UNCHANGED expVars

\* setupConsulImpl returns an error: log and enter time.Sleep.
ConsulFailed ==
    /\ cpc = "loop"
    /\ consulLoopCond(ci)
    /\ attempts' = attempts + 1
    /\ cpc' = "sleep"
    /\ UNCHANGED <<monitorState, apiVars, loopVars, cancelled, tickVars,
                   ci, sleeps, registered>>
    /\ UNCHANGED expVars

\* time.Sleep(sleepDuration) returns; i++.
ConsulSleep ==
    /\ cpc = "sleep"
    /\ sleeps' = sleeps + 1
    /\ ci' = ci + 1
    /\ cpc' = "loop"
    /\ UNCHANGED <<monitorState, apiVars, loopVars, cancelled, tickVars,
                   attempts, registered>>
    /\ UNCHANGED expVars

\* The loop condition fails: "Stop trying to register on consul".
ConsulGiveUp ==
    /\ cpc = "loop"
    /\ ~consulLoopCond(ci)
    /\ cpc' = "done"
    /\ UNCHANGED <<monitorState, apiVars, loopVars, cancelled, tickVars,
                   ci, attempts, sleeps, registered>>
    /\ UNCHANGED expVars

----------------------------------------------------------------------------

Init ==
    /\ connected = FALSE
    /\ synced = FALSE
    /\ lastBlock = <<>>
    /\ chain = ""
    /\ etherscan = ""
    /\ ethClient = ""
    /\ pc = "select"
    /\ timer = "armed"
    /\ cancelled = FALSE
    /\ shutdownLogs = 0
    /\ inflight = 0
    /\ prev = [connected |-> FALSE, synced |-> FALSE, lastBlock |-> <<>>,
               etherscan |-> ""]
    /\ kind = "none"
    /\ lastIn = NoInput
    /\ calls = <<>>
    /\ gauges = <<>>
    /\ errs = <<>>
    /\ logs = <<>>
    /\ afterRefused = FALSE
    /\ followsRefused = FALSE
    /\ lagVerdict = "none"
    /\ blockNumber = <<>>
    /\ setupErr = <<>>
    /\ ci = 0
    /\ cpc = "loop"
    /\ attempts = 0
    /\ sleeps = 0
    /\ registered = FALSE
    /\ epc = "select"
    /\ etimer = "armed"
    /\ rcpStop = 0
    /\ spc = "none"
    /\ listener = "open"
    /\ peersGauge = <<>>
    /\ rpcErrLogged = FALSE
    /\ rpcRounds = 0
    /\ sentInFlight = FALSE

Next ==
    \/ TimerFire
    \/ Tick
    \/ PeerCountReturn
    \/ BlockNumberReturn
    \/ BlockByNumberReturn
    \/ EtherscanReturn
    \/ GatherReturn
    \/ ChainReturn
    \/ SetupReturn
    \/ Done
    \/ Cancel
    \/ ConsulRegistered
    \/ ConsulFailed
    \/ ConsulSleep
    \/ ConsulGiveUp

Spec == Init /\ [][Next]_vars

\* The polling loop alone: the start goroutine and the owner of ctx, with the
\* registration supervisor not scheduled.
LoopNext ==
    \/ TimerFire
    \/ Tick
    \/ PeerCountReturn
    \/ BlockNumberReturn
    \/ BlockByNumberReturn
    \/ EtherscanReturn
    \/ GatherReturn
    \/ ChainReturn
    \/ SetupReturn
    \/ Done
    \/ Cancel

LoopSpec == Init /\ [][LoopNext]_vars

----------------------------------------------------------------------------
(* The standalone Exporter (parity_exporter.go): startRPC and Shutdown.    *)
(* The state is the one after Start: the listener is open and startRPC is  *)
(* in its select with a new time.After(5 s) timer.  The select has no      *)
(* priority among its cases: once the timer has fired its case can be      *)
(* taken whether or not a stop signal is buffered.  Nothing is assumed     *)
(* about progress: Peers() has no timeout, and the process may end.        *)

ParityPeerResults == {Ok(n) : n \in {0, 3, 25}} \cup {Fail(e) : e \in ErrMsgs}

monitorVars == <<monitorState, apiVars, loopVars, cancelled, tickVars, consulVars>>

\* time.After(5 * time.Second) of the pending select delivers its tick.
ExpTimerFire ==
    /\ epc = "select"
    /\ etimer = "armed"
    /\ etimer' = "fired"
    /\ UNCHANGED <<epc, rcpStop, spc, listener, peersGauge, rpcErrLogged,
                   rpcRounds, sentInFlight>>
    /\ UNCHANGED monitorVars

\* select takes the time.After case: an rpcCalls round begins.
ExpTick ==
    /\ epc = "select"
    /\ etimer = "fired"
    /\ epc' = "rpc"
    /\ etimer' = "none"
    /\ UNCHANGED <<rcpStop, spc, listener, peersGauge, rpcErrLogged,
                   rpcRounds, sentInFlight>>
    /\ UNCHANGED monitorVars

\* rpcCalls returns; the loop re-enters the select with a new timer.
ExpRpcCalls ==
    /\ epc = "rpc"
    /\ \E r \in ParityPeerResults :
        /\ peersGauge' = IF r.ok THEN <<F32(r.val)>> ELSE peersGauge
        /\ rpcErrLogged' = ~r.ok
    /\ rpcRounds' = IF rpcRounds < MaxRpcRounds THEN rpcRounds + 1 ELSE rpcRounds
    /\ epc' = "select"
    /\ etimer' = "armed"
    /\ UNCHANGED <<rcpStop, spc, listener, sentInFlight>>
    /\ UNCHANGED monitorVars

ExpStopNoReturn ==
    /\ epc = "select"
    /\ rcpStop > 0
    /\ rcpStop' = rcpStop - 1
    /\ epc' = "select"
    /\ etimer' = "armed"
    /\ UNCHANGED <<spc, listener, peersGauge, rpcErrLogged, rpcRounds,
                   sentInFlight>>
    /\ UNCHANGED monitorVars

\* select takes the rcpStop case: startRPC returns.
ExpStop ==
    /\ epc = "select"
    /\ rcpStop > 0
    /\ rcpStop' = rcpStop - 1
    /\ epc' = "returned"
    /\ etimer' = "none"
    /\ UNCHANGED <<spc, listener, peersGauge, rpcErrLogged, rpcRounds,
                   sentInFlight>>
    /\ UNCHANGED monitorVars

\* Shutdown: log and e.listener.Close().
ShutdownClose ==
    /\ spc = "none"
    /\ listener' = "closed"
    /\ spc' = "send"
    /\ UNCHANGED <<epc, etimer, rcpStop, peersGauge, rpcErrLogged, rpcRounds,
                   sentInFlight>>
    /\ UNCHANGED monitorVars

\* Shutdown: e.rcpStop <- struct{}{} completes when the buffer has room.
ShutdownSend ==
    /\ spc = "send"
    /\ rcpStop < RcpStopCap
    /\ rcpStop' = rcpStop + 1
    /\ sentInFlight' = (epc = "rpc")
    /\ spc' = "done"
    /\ UNCHANGED <<epc, etimer, listener, peersGauge, rpcErrLogged, rpcRounds>>
    /\ UNCHANGED monitorVars

ExpNext ==
    \/ ExpTimerFire
    \/ ExpTick
    \/ ExpRpcCalls
    \/ ExpStop
    \/ ShutdownClose
    \/ ShutdownSend

ExpSpec == Init /\ [][ExpNext]_vars

----
(* Properties *)

GaugeValues(n) == {gauges[i].value : i \in {j \in 1..Len(gauges) : gauges[j].name = n}}

GaugeCount(n) == Cardinality({j \in 1..Len(gauges) : gauges[j].name = n})

LogCount(l) == Cardinality({j \in 1..Len(logs) : logs[j] = l})

RoundOrder == <<"peers", "blockNumber", "block", "explorer">>

OrderIndex(c) == CHOOSE i \in 1..Len(RoundOrder) : RoundOrder[i] = c

\* C1: once ctx.Done has been handled the polling loop has terminated: the
\* goroutine takes no further step, so it neither selects again nor enters
\* another tick handler.
C1_LoopStopsAfterCancel ==
    [][shutdownLogs > 0 =>
        (shutdownLogs' = shutdownLogs /\ pc' = pc /\ inflight' = inflight)]_vars

\* C2: a tick handled while connected = FALSE runs no gathering round: at
\* no point of the handler has a query other than the chain query of
\* setupApis been made or a gauge been emitted, and when it has returned its
\* only collaborator call was that one chain query.
C2_DisconnectedTickOnlyConnects ==
    /\ ((pc # "select" \/ kind # "none") /\ ~prev.connected) =>
          /\ pc \in {"select", "chain", "setup"}
          /\ gauges = <<>>
          /\ \A i \in 1..Len(calls) : calls[i] = "chain"
    /\ (kind # "none" /\ ~prev.connected) =>
          (kind = "connect" /\ calls = <<"chain">>)

C2_Witness ==
    /\ pc = "select"
    /\ kind = "connect"
    /\ ~prev.connected
    /\ calls = <<"chain">>

\* C3: a gathering round one of whose errors carries "connection refused"
\* leaves connected = FALSE when it returns, and the tick handler that
\* follows such a round is a connection attempt, not a round.
C3_RefusedDisconnectsThenReconnects ==
    /\ (kind = "gather"
        /\ \E i \in 1..Len(errs) : Contains(errs[i], Signature)) => ~connected
    /\ (kind # "none" /\ followsRefused) =>
        (kind = "connect" /\ calls = <<"chain">>)

C3_Witness ==
    /\ followsRefused
    /\ kind = "connect"
    /\ prev.connected = FALSE

\* C4 as stated: a round in which exactly one query fails leaves connected
\* TRUE, whichever query failed and whatever its error is.
C4_PartialFailureKeepsConnected ==
    (kind = "gather" /\ Len(errs) = 1) => connected

\* C4 amended: a round in which exactly one query fails leaves connected
\* TRUE exactly when the text of that error does not contain "connection
\* refused"; when it does, connected is FALSE after the round, whichever
\* query (the explorer query included) failed.
C4_PartialFailureKeepsConnectedUnlessRefused ==
    (kind = "gather" /\ Len(errs) = 1) =>
        (connected <=> ~Contains(errs[1], Signature))

C4_Witness ==
    /\ kind = "gather"
    /\ Len(errs) = 1
    /\ lastIn.peers.ok /\ lastIn.bn.ok /\ lastIn.blk.ok /\ ~lastIn.exp.ok
    /\ connected

\* C5: a round whose block-number query fails makes neither the
\* block-by-number nor the explorer query, emits neither blocktime nor
\* blocksbehind, and leaves lastBlock as it was.
C5_BlockNumberFailureSkipsSteps ==
    (kind = "gather" /\ ~lastIn.bn.ok) =>
        /\ \A i \in 1..Len(calls) : calls[i] \notin {"block", "explorer"}
        /\ GaugeCount("blocktime") = 0
        /\ GaugeCount("blocksbehind") = 0
        /\ lastBlock = prev.lastBlock

\* C6: a round never aborts early: its calls are made at most once each in
\* the order peers, block number, block, explorer; the peer and block-number
\* queries are always made, and when the block number is known the block and
\* explorer queries are both made, whatever failed before them.
C6_RoundNeverAbortsEarly ==
    kind = "gather" =>
        /\ \A i, j \in 1..Len(calls) :
              i < j => OrderIndex(calls[i]) < OrderIndex(calls[j])
        /\ Len(calls) >= 2
        /\ calls[1] = "peers"
        /\ calls[2] = "blockNumber"
        /\ lastIn.bn.ok => calls = RoundOrder

C6_Witness ==
    /\ kind = "gather"
    /\ ~lastIn.peers.ok
    /\ lastIn.bn.ok
    /\ ~lastIn.blk.ok
    /\ lastIn.exp.ok
    /\ calls = RoundOrder
    /\ GaugeCount("blocksbehind") = 1

\* C7: a round logs the synced transition exactly once when it changed
\* synced, with or without an error, and not at all when synced is unchanged.
C7_TransitionLoggedOncePerChange ==
    kind = "gather" =>
        LogCount("State changed") = (IF synced # prev.synced THEN 1 ELSE 0)

\* C8: after a round whose block-number and explorer queries both succeed,
\* the blocksbehind gauge emitted is remote - local and synced is
\* (|remote - local| <= SyncThreshold).
C8_LagGaugeAndSyncedBoundary ==
    (kind = "gather" /\ lastIn.bn.ok /\ lastIn.exp.ok) =>
        /\ GaugeCount("blocksbehind") = 1
        /\ GaugeValues("blocksbehind") = {lastIn.exp.val - lastIn.bn.val}
        /\ synced = (Abs(lastIn.exp.val - lastIn.bn.val) <= SyncThreshold)

\* C9: setupConsul makes at most 5 attempts; every failed attempt is followed
\* by one sleep before the next attempt; it stops unregistered only after
\* exactly 5 attempts; after a successful attempt it stops and makes no
\* further attempt.
C9_BoundedRegistrationRetry ==
    /\ [](/\ attempts <= 5
          /\ (cpc = "loop" => sleeps = attempts)
          /\ (cpc = "sleep" => sleeps = attempts - 1)
          /\ (cpc = "done" /\ ~registered => attempts = 5 /\ sleeps = 5)
          /\ (registered => cpc = "done" /\ sleeps = attempts - 1))
    /\ [][registered => (attempts' = attempts /\ sleeps' = sleeps)]_vars

C9_Witness ==
    /\ cpc = "done"
    /\ ~registered
    /\ attempts = 5
    /\ sleeps = 5

\* C10: at most one tick handler is in flight; while it is in flight no
\* timer exists, so no tick is queued behind it; and connected, synced and
\* lastBlock change only in a step of the in-flight tick handler (a step of
\* the polling loop that is not at its select), never in a step of the
\* registration goroutine or of the owner of ctx.
C10_OneRoundInFlightSingleWriter ==
    /\ [](/\ inflight <= 1
          /\ (pc # "select" => inflight = 1 /\ timer = "none")
          /\ (pc = "select" => inflight = 0 /\ timer # "none"))
    /\ [][monitorState' # monitorState =>
            (/\ pc # "select"
             /\ pc' # pc
             /\ inflight = 1
             /\ UNCHANGED <<consulVars, cancelled>>)]_vars

C10_Witness ==
    /\ pc = "explorer"
    /\ inflight = 1
    /\ prev.connected
    /\ lastBlock # prev.lastBlock
    /\ cpc = "sleep"

AllowedChains == {"kovan", "foundation"}

\* C11: the monitor starts disconnected, and connected goes from FALSE to
\* TRUE only in a connection attempt whose chain query succeeded with an
\* identifier of the allow-set; an attempt whose chain query fails or returns
\* another identifier leaves connected FALSE.
C11_ConnectsOnlyOnAllowedChain ==
    /\ ~connected
    /\ [][(~connected /\ connected') =>
            (kind' = "connect" /\ calls' = <<"chain">>
             /\ lastIn'.chain.ok /\ lastIn'.chain.name \in AllowedChains)]_vars
    /\ [](kind = "connect" =>
            (connected <=> (lastIn.chain.ok /\ lastIn.chain.name \in AllowedChains)))

C11_Witness ==
    /\ kind = "connect"
    /\ lastIn.chain.ok
    /\ lastIn.chain.name = "ropsten"
    /\ ~connected

\* C12: synced is written only by a round whose block-number and explorer
\* queries both succeed; every other round and every connection attempt
\* leaves synced at the value it had when the tick handler began.
C12_SyncedWrittenOnlyByLagComputation ==
    /\ [](kind = "connect" => synced = prev.synced)
    /\ []((kind = "gather" /\ ~(lastIn.bn.ok /\ lastIn.exp.ok)) =>
            synced = prev.synced)
    /\ [][synced' # synced =>
            (/\ pc = "explorer"
             /\ prev.connected
             /\ lastIn'.bn.ok
             /\ lastIn'.exp.ok)]_vars

C12_Witness ==
    /\ kind = "gather"
    /\ lastIn.bn.ok
    /\ ~lastIn.exp.ok
    /\ prev.synced
    /\ synced

\* C13: in every round a successful block-by-number query overwrites
\* lastBlock with the block returned, also when its number is lower than the
\* number of the previous lastBlock; a failed query leaves lastBlock as it was.
C13_LastBlockOverwrittenOnSuccess ==
    kind = "gather" =>
        IF lastIn.blk.ok
        THEN lastBlock = <<[number |-> lastIn.blk.val, timestamp |-> lastIn.blk.ts]>>
        ELSE lastBlock = prev.lastBlock

C13_Witness ==
    /\ kind = "gather"
    /\ lastIn.blk.ok
    /\ prev.lastBlock # <<>>
    /\ prev.lastBlock[1].number > lastIn.blk.val
    /\ lastBlock[1].number = lastIn.blk.val

\* C14: a round emits the blocktime gauge exactly when its block-by-number
\* query succeeds and lastBlock was set before the round, and the value
\* emitted is the new block's timestamp minus the timestamp of the lastBlock
\* of before the round, also when that is zero or negative.
C14_BlocktimeIsTimestampDifference ==
    kind = "gather" =>
        IF lastIn.blk.ok /\ prev.lastBlock # <<>>
        THEN /\ GaugeCount("blocktime") = 1
             /\ GaugeValues("blocktime") =
                    {lastIn.blk.ts - prev.lastBlock[1].timestamp}
        ELSE GaugeCount("blocktime") = 0

\* C15: the registration supervisor runs beside the polling loop and never
\* blocks it: a step of setupConsul changes nothing but setupConsul's own
\* variables (so it never writes connected, synced or lastBlock), and in
\* every state of the supervisor the next step of the polling loop is
\* enabled: the armed timer can fire, the select can take the fired timer's
\* case, and a tick handler in flight can take its next step.
C15_RegistrationNeverBlocksLoop ==
    /\ [][consulVars' # consulVars =>
            UNCHANGED <<monitorState, apiVars, loopVars, cancelled, tickVars>>]_vars
    /\ []((pc = "select" /\ timer = "armed") => ENABLED TimerFire)
    /\ []((pc = "select" /\ timer = "fired") => ENABLED Tick)
    /\ [](pc = "peers" => ENABLED PeerCountReturn)
    /\ [](pc = "blockNumber" => ENABLED BlockNumberReturn)
    /\ [](pc = "block" => ENABLED BlockByNumberReturn)
    /\ [](pc = "explorer" => ENABLED EtherscanReturn)
    /\ [](pc = "gathered" => ENABLED GatherReturn)
    /\ [](pc = "chain" => ENABLED ChainReturn)
    /\ [](pc = "setup" => ENABLED SetupReturn)

C15_Witness ==
    /\ cpc = "sleep"
    /\ attempts = 2
    /\ pc = "explorer"
    /\ lastBlock # prev.lastBlock
    /\ connected
    /\ synced

\* C16: the explorer endpoint that carries the chain identity changes only
\* in a successful connection attempt, to the endpoint of the chain the node
\* reported, and is cleared in the step in which connected goes from TRUE to
\* FALSE.
C16_ChainResolvedPerConnection ==
    /\ [][etherscan' # etherscan =>
            (/\ pc = "chain"
             /\ lastIn'.chain.ok
             /\ setupErr' = <<>>
             /\ etherscan' = ExplorerUrl(lastIn'.chain.name))]_vars
    /\ [](kind = "gather" => etherscan = prev.etherscan)
    /\ [][(connected /\ ~connected') => etherscan' = ""]_vars

\* C17: a failed connection attempt leaves connected FALSE, synced, lastBlock
\* and the resolved explorer endpoint as they were, and makes exactly one
\* chain query; after it the loop's next tick is enabled again, and every
\* tick handled while disconnected makes exactly one new attempt.
C17_FailedConnectIsRetriedEachTick ==
    /\ []((kind = "connect" /\ ~connected) =>
            /\ ~prev.connected
            /\ synced = prev.synced
            /\ lastBlock = prev.lastBlock
            /\ calls = <<"chain">>)
    /\ []((kind = "connect" /\ ~connected) => etherscan = prev.etherscan)
    /\ [][(pc \in {"chain", "setup"} /\ setupErr' # <<>>) =>
            UNCHANGED <<monitorState, chain, etherscan>>]_vars
    /\ []((kind # "none" /\ ~prev.connected) => calls = <<"chain">>)
    /\ []((kind = "connect" /\ ~connected /\ pc = "select") =>
            /\ timer = "armed" => ENABLED TimerFire
            /\ timer = "fired" => ENABLED Tick)

C17_Witness ==
    /\ kind = "connect"
    /\ ~connected
    /\ ~lastIn.chain.ok
    /\ followsRefused = FALSE
    /\ lastBlock # <<>>
    /\ synced

\* C18: neither the round that disconnects nor a connection attempt resets
\* synced or lastBlock: a connection attempt leaves both as they were, the
\* disconnecting round leaves them as its own queries set them, and every
\* round (the first after a reconnect included) computes blocktime against
\* the lastBlock held when it began.
C18_StateSurvivesReconnect ==
    /\ kind = "connect" => (synced = prev.synced /\ lastBlock = prev.lastBlock)
    /\ (kind = "gather" /\ ~connected) =>
          /\ (~(lastIn.bn.ok /\ lastIn.exp.ok) => synced = prev.synced)
          /\ (~lastIn.blk.ok => lastBlock = prev.lastBlock)
          /\ (lastIn.blk.ok => lastBlock # <<>>)
    /\ (kind = "gather" /\ lastIn.blk.ok /\ prev.lastBlock # <<>>) =>
          GaugeValues("blocktime") =
              {F32(lastIn.blk.ts - prev.lastBlock[1].timestamp)}

C18_Witness ==
    /\ kind = "connect"
    /\ ~prev.connected
    /\ connected
    /\ synced
    /\ lastBlock # <<>>

\* C19: synced is FALSE until a round has compared a lag with the threshold,
\* and whenever synced is TRUE the most recent such comparison found
\* |remote - local| <= SyncThreshold.
C19_SyncedImpliesLastLagWithinThreshold ==
    synced => lagVerdict = "within"

C19_Witness ==
    /\ kind = "gather"
    /\ synced
    /\ lagVerdict = "within"
    /\ lastIn.exp.val - lastIn.bn.val = SyncThreshold

\* C20 as stated: one Shutdown call makes startRPC terminate: its send
\* never waits for room in rcpStop, a round in flight when the signal is sent
\* runs to its end, and from then on the loop starts no rpcCalls round: with
\* that signal buffered the select does not take the timer's case, and once
\* returned the loop stays returned.
C20_ShutdownStopsRpcLoop ==
    /\ [](spc = "send" => rcpStop < RcpStopCap)
    /\ [][epc = "rpc" => epc' \in {"rpc", "select"}]_vars
    /\ [][(sentInFlight /\ rcpStop > 0) =>
            ~(epc = "select" /\ epc' = "rpc")]_vars
    /\ [][epc = "returned" =>
            (epc' = "returned" /\ rpcRounds' = rpcRounds)]_vars

\* C20 amended: the send of one Shutdown call never waits for room in
\* rcpStop; a signal sent while a round is in flight is buffered and the
\* round runs to its end; the signal stays buffered until the select's
\* rcpStop case takes it, which is the only way startRPC returns; that case
\* can be taken at every select reached with the signal buffered; a round
\* starts only from a select whose timer has fired; and once returned the
\* loop stays returned and runs no round.
C20_StopSignalEndsLoopWhenStopCaseTaken ==
    /\ [](spc = "send" => (rcpStop < RcpStopCap /\ ENABLED ShutdownSend))
    /\ [][epc = "rpc" => epc' \in {"rpc", "select"}]_vars
    /\ [][(spc = "send" /\ spc' = "done" /\ epc = "rpc") =>
            (epc' = "rpc" /\ rcpStop' = 1)]_vars
    /\ [](spc = "done" => (rcpStop = 1 \/ epc = "returned"))
    /\ [][rcpStop' < rcpStop => (epc = "select" /\ epc' = "returned")]_vars
    /\ [][(epc # "returned" /\ epc' = "returned") =>
            (epc = "select" /\ rcpStop = 1 /\ rcpStop' = 0)]_vars
    /\ []((epc = "select" /\ rcpStop > 0) => ENABLED ExpStop)
    /\ [][(epc = "select" /\ epc' = "rpc") => etimer = "fired"]_vars
    /\ [][epc = "returned" =>
            (epc' = "returned" /\ rpcRounds' = rpcRounds
             /\ peersGauge' = peersGauge)]_vars

C20_Witness ==
    /\ epc = "returned"
    /\ spc = "done"
    /\ sentInFlight
    /\ rcpStop = 0
    /\ rpcRounds > 0

====
